---- MODULE Spec2Model ----
(***************************************************************************)
(* A model of whoosh.filedb.filetables: the CDB-style hash table writers   *)
(* and readers (HashWriter, HashReader, OrderedHashWriter,                 *)
(* OrderedHashReader) over a byte-addressed file, the stored fields writer *)
(* and reader, the reader being used by two threads or by one caller, the  *)
(* coded term index and term vector writers and readers, TermInfo and its  *)
(* string form, and the lengths writer and reader.                         *)
(*                                                                         *)
(* A file is its size and the bytes at the positions written so far.       *)
(* A 32-bit hash is kept as its two 16-bit halves <<hi, lo>>, so that no   *)
(* arithmetic leaves the range of the integers at hand while every bit of  *)
(* the hash is kept.                                                       *)
(***************************************************************************)
EXTENDS Integers, Sequences, FiniteSets, TLC

\* ------------------------------------------------------------------ bounds

\* The most records one writer is given.
MaxRecords == 3
\* The most items of one add_all call.
MaxCall == 2
\* The most documents one StoredFieldWriter is given; the doccount of the
\* LengthWriter.
MaxDocs == 2

\* ------------------------------------------------------- program constants

header_entry_size == 12
lengths_size == 8
pointer_size == 12
NumBuckets == 256
INT_SIZE == 4
LONG_SIZE == 8
header_size == 16 + NumBuckets * header_entry_size

\* Python's None: a value that is no byte string, and one that is no position.
None == <<-1>>
NoPos == -1

\* The keys and values the callers use (byte strings).  "05" and "2w" have
\* the same 32-bit cdb_hash; "Qt" has another hash with the same low byte (0)
\* and the same initial probe index in tables of 2, 4 and 6 slots; the empty
\* key falls in bucket 5, so bucket 0 is empty in some tables and not in
\* others.  In byte order: "" < "05" < "2w" < "Qt".
KeyEmpty == <<>>
Key05 == <<48, 53>>
Key2w == <<50, 119>>
KeyQt == <<81, 116>>
Keys == {KeyEmpty, Key05, Key2w, KeyQt}
ValueEmpty == <<>>
ValueX == <<120>>
Values == {ValueEmpty, ValueX}
\* The (key, value) pairs the callers add: every key with the value "x", and
\* the key "2w" with the empty value as well, so that one key is added with
\* several values.
Items == (Keys \X {ValueX}) \cup {<<Key2w, ValueEmpty>>}

\* ------------------------------------------------------------ byte helpers

RECURSIVE ConcatAll(_, _, _)
\* parts[lo] \o ... \o parts[hi], for lo <= hi.
ConcatAll(parts, lo, hi) ==
    IF lo = hi THEN parts[lo]
    ELSE ConcatAll(parts, lo, (lo + hi) \div 2) \o ConcatAll(parts, (lo + hi) \div 2 + 1, hi)

Min(a, b) == IF a < b THEN a ELSE b

RECURSIVE Xor(_, _, _)
\* Bitwise exclusive or of the low `bits` bits of a and b.
Xor(a, b, bits) ==
    IF bits = 0 THEN 0
    ELSE ((a + b) % 2) + 2 * Xor(a \div 2, b \div 2, bits - 1)

\* struct "!I" of a number below 2^31.
pack_uint(n) ==
    << (n \div 16777216) % 256, (n \div 65536) % 256, (n \div 256) % 256, n % 256 >>

unpack_uint(b) == ((b[1] * 256 + b[2]) * 256 + b[3]) * 256 + b[4]

\* struct "!q" of a number in [-2^31, 2^31): a negative one in two's complement.
pack_long(n) ==
    IF n >= 0 THEN <<0, 0, 0, 0>> \o pack_uint(n)
    ELSE [i \in 1 .. 8 |-> 255 - (<<0, 0, 0, 0>> \o pack_uint(-n - 1))[i]]

unpack_long(b) ==
    IF b[1] < 128 THEN unpack_uint(SubSeq(b, 5, 8))
    ELSE -unpack_uint([i \in 1 .. 4 |-> 255 - b[4 + i]]) - 1

\* struct "!I" of a hash kept as <<hi, lo>>.
pack_hash(h) == << h[1] \div 256, h[1] % 256, h[2] \div 256, h[2] % 256 >>

unpack_hash(b) == << b[1] * 256 + b[2], b[3] * 256 + b[4] >>

pack_lengths(klen, dlen) == pack_uint(klen) \o pack_uint(dlen)

unpack_lengths(b) == << unpack_uint(SubSeq(b, 1, 4)), unpack_uint(SubSeq(b, 5, 8)) >>

pack_header_entry(position, numslots) == pack_long(position) \o pack_uint(numslots)

unpack_header_entry(b) == << unpack_long(SubSeq(b, 1, 8)), unpack_uint(SubSeq(b, 9, 12)) >>

pack_pointer(hashval, position) == pack_hash(hashval) \o pack_long(position)

unpack_pointer(b) == << unpack_hash(SubSeq(b, 1, 4)), unpack_long(SubSeq(b, 5, 12)) >>

\* One step of cdb_hash: h := ((h + (h << 5)) & 0xffffffff) ^ c.
HashStep(h, c) ==
    LET lo33 == h[2] * 33
        lo == lo33 % 65536
        hi == (h[1] * 33 + lo33 \div 65536) % 65536
    IN  << hi, (lo \div 256) * 256 + Xor(lo % 256, c, 8) >>

RECURSIVE HashFrom(_, _, _)
HashFrom(h, key, i) ==
    IF i > Len(key) THEN h ELSE HashFrom(HashStep(h, key[i]), key, i + 1)

\* 5381 = 0 * 65536 + 5381
cdb_hash(key) == HashFrom(<<0, 5381>>, key, 1)

\* h & 255 and h >> 8 of a hash kept as <<hi, lo>>.
LowByte(h) == h[2] % 256
Shift8(h) == h[1] * 256 + h[2] \div 256

\* Python 2 ordering of byte strings, and of a byte string against None
\* (None sorts below every string).
RECURSIVE StrLess(_, _, _)
StrLess(a, b, i) ==
    IF i > Len(b) THEN FALSE
    ELSE IF i > Len(a) THEN TRUE
    ELSE IF a[i] # b[i] THEN a[i] < b[i]
    ELSE StrLess(a, b, i + 1)

KeyLess(a, b) ==
    IF b = None THEN FALSE
    ELSE IF a = None THEN TRUE
    ELSE StrLess(a, b, 1)

KeyLE(a, b) == a = b \/ KeyLess(a, b)

\* ------------------------------------------------------------------- files

\* A file: its size, the lowest position ever written (lo; the size when
\* nothing was written), and data, the bytes at the positions lo .. size - 1
\* in order (data[i] is the byte at position lo + i - 1).  A position below
\* the size that was never written is a hole: it is below lo, or holds Hole.
Hole == -1

EmptyFile == [lo |-> 0, size |-> 0, data |-> <<>>]

Max(a, b) == IF a > b THEN a ELSE b

Holes(n) == [i \in 1 .. n |-> Hole]

\* The byte at position p (below the size), or Hole.
ByteAt(f, p) == IF p < f.lo THEN Hole ELSE f.data[p - f.lo + 1]

\* Whether position p of the file was ever written.
Written(f, p) == p >= f.lo /\ p < f.size /\ ByteAt(f, p) # Hole

\* dbfile.write(bytes) at position pos: the bytes replace what the file held
\* at pos .. pos + Len(bytes) - 1; what lies below and above stays.
Write(f, pos, bytes) ==
    LET end == pos + Len(bytes)
        lo == IF f.lo = f.size THEN pos ELSE Min(f.lo, pos)
        size == Max(f.size, end)
        below == IF f.lo = f.size \/ f.lo >= pos THEN <<>>
                 ELSE SubSeq(f.data, 1, Min(pos, f.size) - f.lo)
                      \o Holes(pos - Min(pos, f.size))
        above == IF f.lo = f.size \/ f.size <= end THEN <<>>
                 ELSE IF f.lo <= end THEN SubSeq(f.data, end - f.lo + 1, Len(f.data))
                 ELSE Holes(f.lo - end) \o f.data
    IN  [lo |-> lo, size |-> size, data |-> below \o bytes \o above]

\* map[position:position + length]: a slice, cut at the end of the file; a
\* byte of a hole reads as 0.
Read(f, position, length) ==
    LET n == Min(length, f.size - position)
    IN  IF n <= 0 THEN <<>>
        ELSE IF position >= f.lo
                /\ \A i \in 1 .. n : f.data[position - f.lo + i] # Hole
        THEN SubSeq(f.data, position - f.lo + 1, position - f.lo + n)
        ELSE [i \in 1 .. n |->
                IF Written(f, position + i - 1) THEN ByteAt(f, position + i - 1) ELSE 0]

\* -------------------------------------------------------------- the writer

\* HashWriter.add_all: every item is appended as <klen><dlen><key><value> and
\* (hash, pos) is appended to the list of bucket hash & 255.
\* st = [file, fpos, pos, hashes, added].
RECURSIVE HashWriter_add_all(_, _, _)
HashWriter_add_all(st, items, i) ==
    IF i > Len(items) THEN st
    ELSE
        LET key == items[i][1]
            value == items[i][2]
            bytes == pack_lengths(Len(key), Len(value)) \o key \o value
            h == cdb_hash(key)
        IN  HashWriter_add_all(
                [st EXCEPT !.file = Write(st.file, st.fpos, bytes),
                           !.fpos = st.fpos + Len(bytes),
                           !.hashes[LowByte(h)] = Append(@, <<h, st.pos>>),
                           !.pos = st.pos + lengths_size + Len(key) + Len(value),
                           !.added = Append(@, items[i])],
                items, i + 1)

\* OutOfOrder letting an equal key through.
OutOfOrder_Strict(key, lk) == KeyLess(key, lk)

\* if key <= lk: raise ValueError
OutOfOrder(key, lk) == KeyLE(key, lk)

\* The loop of OrderedHashWriter.add_all: as above, with the ordering check
\* against the local lk and the offset appended to index.  A key <= lk raises:
\* the loop stops with err set and what the earlier items wrote stays written.
\* st = [file, fpos, pos, hashes, index, lk, err].
RECURSIVE OrderedHashWriter_add_all(_, _, _)
OrderedHashWriter_add_all(st, items, i) ==
    IF i > Len(items) THEN st
    ELSE
        LET key == items[i][1]
            value == items[i][2]
            bytes == pack_lengths(Len(key), Len(value)) \o key \o value
            h == cdb_hash(key)
        IN  IF OutOfOrder(key, st.lk) THEN [st EXCEPT !.err = TRUE]
            ELSE OrderedHashWriter_add_all(
                    [st EXCEPT !.lk = key,
                               !.index = Append(@, st.pos),
                               !.file = Write(st.file, st.fpos, bytes),
                               !.fpos = st.fpos + Len(bytes),
                               !.hashes[LowByte(h)] = Append(@, <<h, st.pos>>),
                               !.pos = st.pos + lengths_size + Len(key) + Len(value)],
                    items, i + 1)

RECURSIVE Passed(_, _, _)
\* The number of items the loop of OrderedHashWriter.add_all gets through
\* from item i on, lk being the key before it: those before the first key
\* that is out of order.
Passed(items, lk, i) ==
    IF i > Len(items) THEN 0
    ELSE IF OutOfOrder(items[i][1], lk) THEN 0
    ELSE 1 + Passed(items, items[i][1], i + 1)

null == <<<<0, 0>>, 0>>

RECURSIVE ProbeFree(_, _, _)
\* while hashtable[n] != null: n = (n + 1) % numslots   (slots numbered from 0)
ProbeFree(hashtable, n, numslots) ==
    IF hashtable[n + 1] = null THEN n
    ELSE ProbeFree(hashtable, (n + 1) % numslots, numslots)

\* ProbeStart without the shift: hashval % numslots.
ProbeStart_NoShift(hashval, numslots) == ((hashval[1] % numslots) * (65536 % numslots) + hashval[2]) % numslots

\* n = (hashval >> 8) % numslots
ProbeStart(hashval, numslots) == Shift8(hashval) % numslots

RECURSIVE FillTable(_, _, _, _)
\* for hashval, position in entries: insert at the first free slot from the start
FillTable(hashtable, entries, j, numslots) ==
    IF j > Len(entries) THEN hashtable
    ELSE
        LET n == ProbeFree(hashtable, ProbeStart(entries[j][1], numslots), numslots)
        IN  FillTable([hashtable EXCEPT ![n + 1] = entries[j]], entries, j + 1, numslots)

\* NumSlots with one slot for each entry.
NumSlots_Full(entries) == Len(entries)

\* numslots = 2 * len(entries)
NumSlots(entries) == 2 * Len(entries)

\* The slot table of one bucket.
BucketTable(entries) ==
    LET numslots == NumSlots(entries)
    IN  FillTable([s \in 1 .. numslots |-> null], entries, 1, numslots)

\* The bytes of a slot table: pack_pointer of each slot, in order.
TableBytes(hashtable) ==
    IF Len(hashtable) = 0 THEN <<>>
    ELSE ConcatAll([s \in 1 .. Len(hashtable) |->
                      pack_pointer(hashtable[s][1], hashtable[s][2])],
                   1, Len(hashtable))

\* One turn of the loop of _write_hashes, for bucket i:
\* directory.append((pos, numslots)), then the slots are written.
\* st = [file, fpos, pos, directory].
WriteBucket(st, entries) ==
    LET hashtable == BucketTable(entries)
        bytes == TableBytes(hashtable)
    IN  [file |-> IF Len(bytes) = 0 THEN st.file ELSE Write(st.file, st.fpos, bytes),
         fpos |-> st.fpos + Len(bytes),
         pos |-> st.pos + Len(hashtable) * pointer_size,
         directory |-> Append(st.directory, <<st.pos, Len(hashtable)>>)]

RECURSIVE WriteBuckets(_, _, _, _)
\* for i in xrange(lo, hi + 1), in this order.  The range is halved, and the
\* first half's result is looked at before the second half starts, only to
\* keep the evaluation shallow.
WriteBuckets(st, hashes, lo, hi) ==
    IF lo = hi THEN WriteBucket(st, hashes[lo])
    ELSE
        LET mid == (lo + hi) \div 2
            first == WriteBuckets(st, hashes, lo, mid)
        IN  IF first.fpos >= st.fpos THEN WriteBuckets(first, hashes, mid + 1, hi)
            ELSE first

\* _write_hashes counting the positions of the tables from 0.
_write_hashes_FromZero(f, p, hashes) ==
    WriteBuckets([file |-> f, fpos |-> p, pos |-> 0, directory |-> <<>>], hashes,
                 0, NumBuckets - 1)

\* HashWriter._write_hashes; _end_of_hashes is dbfile.tell() at its end.
_write_hashes(f, p, hashes) ==
    WriteBuckets([file |-> f, fpos |-> p, pos |-> p, directory |-> <<>>], hashes,
                 0, NumBuckets - 1)

\* for n in self.index: dbfile.write_long(n)
IndexBytes(idx) ==
    IF Len(idx) = 0 THEN <<>>
    ELSE ConcatAll([i \in 1 .. Len(idx) |-> pack_long(idx[i])], 1, Len(idx))

\* OrderedHashWriter.close, between _write_hashes and _write_directory.
IndexBlock(idx) == pack_uint(Len(idx)) \o IndexBytes(idx)

\* for position, numslots in directory: pack_header_entry(position, numslots)
DirectoryBytes(dir) ==
    IF Len(dir) = 0 THEN <<>>
    ELSE ConcatAll([i \in 1 .. Len(dir) |-> pack_header_entry(dir[i][1], dir[i][2])],
                   1, Len(dir))

\* "HASH"
Magic == <<72, 65, 83, 72>>

\* HeaderBytes without the unused int after the magic.
HeaderBytes_NoUnused(dir, eoh) ==
    Magic \o pack_long(eoh) \o DirectoryBytes(dir)

\* What HashWriter._write_directory writes after dbfile.seek(0).
HeaderBytes(dir, eoh) ==
    Magic \o pack_uint(0) \o pack_long(eoh) \o DirectoryBytes(dir)

\* The position HashWriter._write_directory seeks to.
DirectorySeek == 0

_write_directory(f, dir, eoh) ==
    [file |-> Write(f, DirectorySeek, HeaderBytes(dir, eoh)),
     fpos |-> DirectorySeek + Len(HeaderBytes(dir, eoh))]

\* -------------------------------------------------------------- the reader

\* HashReader.__init__ on a file: the magic, _end_of_hashes, the 256 directory
\* entries and _start_of_hashes = buckets[0][0]; map says that the object has
\* its attribute map, dbfile_closes how often dbfile.close() was called.  A file without the magic is
\* read as the old format (its directory follows the four bytes just read).
HashReader_init(f) ==
    LET magic == Read(f, 0, 4)
        isnew == magic = Magic
        base == IF isnew THEN 16 ELSE 4
        bk == [i \in 0 .. NumBuckets - 1 |->
                 unpack_header_entry(Read(f, base + i * header_entry_size, header_entry_size))]
    IN  [old_format |-> ~isnew,
         header_size |-> IF isnew THEN 16 + NumBuckets * header_entry_size
                         ELSE NumBuckets * header_entry_size,
         end_of_hashes |-> IF isnew THEN unpack_long(Read(f, 8, LONG_SIZE)) ELSE 0,
         buckets |-> bk,
         start_of_hashes |-> bk[0][1],
         pointer_size |-> IF isnew THEN pointer_size ELSE 16,
         is_closed |-> FALSE,
         map |-> TRUE,
         dbfile_closes |-> 0,
         length |-> 0,
         indexbase |-> 0]

\* HashReader_close without the test of is_closed.
HashReader_close_NoTest(r) ==
    [raised |-> FALSE,
     r |-> [r EXCEPT !.map = FALSE, !.dbfile_closes = r.dbfile_closes + 1,
                     !.is_closed = TRUE]]

\* HashReader.close: the exception for a closed reader, else del self.map,
\* self.dbfile.close(), self.is_closed = True.
HashReader_close(r) ==
    IF r.is_closed THEN [raised |-> TRUE, r |-> r]
    ELSE [raised |-> FALSE,
          r |-> [r EXCEPT !.map = FALSE, !.dbfile_closes = r.dbfile_closes + 1,
                          !.is_closed = TRUE]]

\* HashReader.end_of_hashes
end_of_hashes_of(r) ==
    IF r.old_format
    THEN r.buckets[NumBuckets - 1][1] + r.buckets[NumBuckets - 1][2] * r.pointer_size
    ELSE r.end_of_hashes

\* OrderedHashReader.__init__: the above, then length and indexbase are read
\* at end_of_hashes().
OrderedHashReader_init(f) ==
    LET r == HashReader_init(f)
    IN  [r EXCEPT !.length = unpack_uint(Read(f, end_of_hashes_of(r), INT_SIZE)),
                  !.indexbase = end_of_hashes_of(r) + INT_SIZE]

\* Where HashReader._ranges starts when it is given no position.
RangesStart(r) == r.header_size

\* RangesEnd taking the end of the hash zone for the end of the records.
RangesEnd_EndOfHashes(r) == r.end_of_hashes

\* Where HashReader._ranges stops: eod = self._start_of_hashes
RangesEnd(r) == r.start_of_hashes

RECURSIVE RangesLoop(_, _, _, _)
\* while pos < eod: yield (keypos, keylen, datapos, datalen)
RangesLoop(r, f, pos, eod) ==
    IF ~(pos < eod) THEN <<>>
    ELSE
        LET kd == unpack_lengths(Read(f, pos, lengths_size))
            keypos == pos + lengths_size
            datapos == pos + lengths_size + kd[1]
        IN  << <<keypos, kd[1], datapos, kd[2]>> >> \o RangesLoop(r, f, datapos + kd[2], eod)

\* HashReader._ranges(pos)
_ranges(r, f, pos) == RangesLoop(r, f, IF pos = NoPos THEN RangesStart(r) ELSE pos, RangesEnd(r))

ItemsOf(f, rngs) ==
    [i \in 1 .. Len(rngs) |-> << Read(f, rngs[i][1], rngs[i][2]), Read(f, rngs[i][3], rngs[i][4]) >>]

\* HashReader.items
items(r, f) == ItemsOf(f, _ranges(r, f, NoPos))

\* NextSlot going back to the first slot one slot early.
NextSlot_WrapEarly(slotpos, hpos, hslots, psize) ==
    IF slotpos + psize = hpos + (hslots - 1) * psize THEN hpos ELSE slotpos + psize

\* The slot position after slotpos, wrapping at the end of the bucket's table.
NextSlot(slotpos, hpos, hslots, psize) ==
    IF slotpos + psize = hpos + hslots * psize THEN hpos ELSE slotpos + psize

\* KeyMatches with the comparison of the key bytes left out.
KeyMatches_LengthOnly(f, pos, key) ==
    unpack_lengths(Read(f, pos, lengths_size))[1] = Len(key)

\* Whether the record at pos has the key (lengths first, then the bytes).
KeyMatches(f, pos, key) ==
    LET kd == unpack_lengths(Read(f, pos, lengths_size))
    IN  kd[1] = Len(key) /\ key = Read(f, pos + lengths_size, kd[1])

RECURSIVE ProbeLoop(_, _, _, _, _, _, _, _)
\* for _ in xrange(hslots): read a slot; stop at an empty one; yield a match
ProbeLoop(r, f, key, keyhash, hpos, hslots, slotpos, left) ==
    IF left = 0 THEN <<>>
    ELSE
        LET ptr == unpack_pointer(Read(f, slotpos, r.pointer_size))
            slothash == ptr[1]
            pos == ptr[2]
            kd == unpack_lengths(Read(f, pos, lengths_size))
            rest == ProbeLoop(r, f, key, keyhash, hpos, hslots,
                              NextSlot(slotpos, hpos, hslots, r.pointer_size), left - 1)
        IN  IF pos = 0 THEN <<>>
            ELSE IF slothash = keyhash /\ KeyMatches(f, pos, key)
                 THEN << <<pos + lengths_size + kd[1], kd[2]>> >> \o rest
                 ELSE rest

RECURSIVE ProbeReads(_, _, _, _, _, _)
\* The positions of the slots the loop of ranges_for_key reads, in order:
\* read(slotpos, pointer_size), return if not pos, else the next slot.
ProbeReads(r, f, hpos, hslots, slotpos, left) ==
    IF left = 0 THEN <<>>
    ELSE IF unpack_pointer(Read(f, slotpos, r.pointer_size))[2] = 0 THEN << slotpos >>
    ELSE << slotpos >> \o ProbeReads(r, f, hpos, hslots,
                                     NextSlot(slotpos, hpos, hslots, r.pointer_size), left - 1)

\* The slot reads of ranges_for_key(key).
ranges_for_key_reads(r, f, key) ==
    LET keyhash == cdb_hash(key)
        hpos == r.buckets[LowByte(keyhash)][1]
        hslots == r.buckets[LowByte(keyhash)][2]
    IN  IF hslots = 0 THEN <<>>
        ELSE ProbeReads(r, f, hpos, hslots,
                        hpos + (Shift8(keyhash) % hslots) * r.pointer_size, hslots)

\* ranges_for_key leaving the loop at the first match.
ranges_for_key_FirstOnly(r, f, key) ==
    LET keyhash == cdb_hash(key)
        hpos == r.buckets[LowByte(keyhash)][1]
        hslots == r.buckets[LowByte(keyhash)][2]
        found == IF hslots = 0 THEN <<>>
                 ELSE ProbeLoop(r, f, key, keyhash, hpos, hslots,
                                hpos + (Shift8(keyhash) % hslots) * r.pointer_size, hslots)
    IN  IF Len(found) > 1 THEN << found[1] >> ELSE found

\* HashReader.ranges_for_key
ranges_for_key(r, f, key) ==
    LET keyhash == cdb_hash(key)
        hpos == r.buckets[LowByte(keyhash)][1]
        hslots == r.buckets[LowByte(keyhash)][2]
    IN  IF hslots = 0 THEN <<>>
        ELSE ProbeLoop(r, f, key, keyhash, hpos, hslots,
                       hpos + (Shift8(keyhash) % hslots) * r.pointer_size, hslots)

\* HashReader.all
all(r, f, key) ==
    LET rk == ranges_for_key(r, f, key)
    IN  [i \in 1 .. Len(rk) |-> Read(f, rk[i][1], rk[i][2])]

\* HashReader.get
get(r, f, key, default) ==
    LET a == all(r, f, key) IN IF Len(a) > 0 THEN a[1] ELSE default

\* What stands for the KeyError a lookup raises, where a value would be.
KeyError == <<-2>>

\* HashReader.__getitem__
HashReader_getitem(r, f, key) ==
    LET a == all(r, f, key) IN IF Len(a) > 0 THEN a[1] ELSE KeyError

\* HashReader._key_at
_key_at(r, f, pos) == Read(f, pos + lengths_size, unpack_uint(Read(f, pos, INT_SIZE)))

\* dbfile.get_long(indexbase + i * _LONG_SIZE)
IndexAt(r, f, i) == unpack_long(Read(f, r.indexbase + i * LONG_SIZE, LONG_SIZE))

RECURSIVE BinarySearch(_, _, _, _, _)
\* while lo < hi: mid = (lo + hi) // 2; midkey < key -> lo = mid + 1, else hi = mid
BinarySearch(r, f, key, lo, hi) ==
    IF ~(lo < hi) THEN lo
    ELSE
        LET mid == (lo + hi) \div 2
            midkey == _key_at(r, f, IndexAt(r, f, mid))
        IN  IF KeyLess(midkey, key) THEN BinarySearch(r, f, key, mid + 1, hi)
            ELSE BinarySearch(r, f, key, lo, mid)

\* OrderedHashReader._closest_key
_closest_key(r, f, key) ==
    LET lo == BinarySearch(r, f, key, 0, r.length)
    IN  IF lo = r.length THEN NoPos ELSE IndexAt(r, f, lo)

\* OrderedHashReader._ranges_from
_ranges_from(r, f, key) ==
    LET pos == _closest_key(r, f, key)
    IN  IF pos = NoPos THEN <<>> ELSE _ranges(r, f, pos)

\* OrderedHashReader.items_from
items_from(r, f, key) == ItemsOf(f, _ranges_from(r, f, key))

\* ------------------------------------------------------- the stored fields

\* _stored_pointer_struct = Struct("!qI"): offset, length
stored_pointer_size == 12

pack_stored_pointer(position, length) == pack_long(position) \o pack_uint(length)

\* unpack_stored_pointer of any 12 bytes with a first byte below 128: the two
\* numbers, one that is 2^31 or more being held as 2^31 - 1, which like it is
\* beyond the end of every file here.
unpack_stored_pointer(b) ==
    << IF SubSeq(b, 1, 4) # <<0, 0, 0, 0>> \/ b[5] >= 128 THEN 2147483647
       ELSE unpack_long(SubSeq(b, 1, 8)),
       IF b[9] >= 128 THEN 2147483647 ELSE unpack_uint(SubSeq(b, 9, 12)) >>

\* Python values, as the pickle machine holds them: None, a byte string, a
\* small int, a list, a 2-tuple, a dict (its items, in order), the mark.
PNone == [t |-> "None", v |-> <<>>]
PStr(s) == [t |-> "str", v |-> s]
PInt(n) == [t |-> "int", v |-> <<n>>]
PList(xs) == [t |-> "list", v |-> xs]
PTuple(a, b) == [t |-> "tuple", v |-> <<a, b>>]
PTuple3(a, b, c) == [t |-> "tuple", v |-> <<a, b, c>>]
PDict(kvs) == [t |-> "dict", v |-> kvs]
PMark == [t |-> "mark", v |-> <<>>]

RECURSIVE PickleBody(_)
RECURSIVE PickleEach(_, _)
\* The opcodes of pickle protocol 2 for a value: N, U <len> <bytes>, K <n>,
\* ] ( items e, items \x86 or \x87, } ( key value .. u.
PickleBody(x) ==
    CASE x.t = "None" -> <<78>>
      [] x.t = "str" -> <<85, Len(x.v)>> \o x.v
      [] x.t = "int" -> <<75, x.v[1]>>
      [] x.t = "tuple" ->
            IF Len(x.v) = 2 THEN PickleBody(x.v[1]) \o PickleBody(x.v[2]) \o <<134>>
            ELSE PickleBody(x.v[1]) \o PickleBody(x.v[2]) \o PickleBody(x.v[3]) \o <<135>>
      [] x.t = "list" ->
            IF Len(x.v) = 0 THEN <<93>>
            ELSE <<93, 40>> \o PickleEach(x.v, 1) \o <<101>>
      [] x.t = "dict" ->
            IF Len(x.v) = 0 THEN <<125>>
            ELSE <<125, 40>>
                 \o PickleEach([i \in 1 .. 2 * Len(x.v) |->
                                  x.v[(i + 1) \div 2][2 - (i % 2)]], 1)
                 \o <<117>>

PickleEach(xs, i) ==
    IF i > Len(xs) THEN <<>> ELSE PickleBody(xs[i]) \o PickleEach(xs, i + 1)

\* dumps(x, -1): the protocol header, the opcodes of x, the stop opcode.
dumps(x) == <<128, 2>> \o PickleBody(x) \o <<46>>

RECURSIVE TopMark(_, _)
\* The place of the topmost mark of the stack, looked for from place i down.
TopMark(stack, i) == IF stack[i].t = "mark" THEN i ELSE TopMark(stack, i - 1)

RECURSIVE Unpickle(_, _, _)
\* The pickle machine on the bytes b from place i: the value on top of the
\* stack at the stop opcode, and the place after that opcode; the stop opcode
\* on an empty stack is an UnpicklingError.
Unpickle(b, i, stack) ==
    LET op == b[i]
        n == Len(stack)
        m == TopMark(stack, n)
        above == SubSeq(stack, m + 1, n)
    IN  CASE op = 46 -> [value |-> IF n = 0 THEN [t |-> "UnpicklingError", v |-> <<>>]
                                   ELSE stack[n],
                         next |-> i + 1]
          [] op = 128 -> Unpickle(b, i + 2, stack)
          [] op = 78 -> Unpickle(b, i + 1, Append(stack, PNone))
          [] op = 85 -> Unpickle(b, i + 2 + b[i + 1],
                                 Append(stack, PStr(SubSeq(b, i + 2, i + 1 + b[i + 1]))))
          [] op = 75 -> Unpickle(b, i + 2, Append(stack, PInt(b[i + 1])))
          [] op = 93 -> Unpickle(b, i + 1, Append(stack, PList(<<>>)))
          [] op = 125 -> Unpickle(b, i + 1, Append(stack, PDict(<<>>)))
          [] op = 40 -> Unpickle(b, i + 1, Append(stack, PMark))
          [] op = 134 -> Unpickle(b, i + 1, Append(SubSeq(stack, 1, n - 2),
                                                   PTuple(stack[n - 1], stack[n])))
          [] op = 135 -> Unpickle(b, i + 1,
                             Append(SubSeq(stack, 1, n - 3),
                                    PTuple3(stack[n - 2], stack[n - 1], stack[n])))
          [] op = 101 -> Unpickle(b, i + 1, Append(SubSeq(stack, 1, m - 2),
                                                   PList(stack[m - 1].v \o above)))
          [] op = 117 -> Unpickle(b, i + 1,
                             Append(SubSeq(stack, 1, m - 2),
                                    PDict(stack[m - 1].v
                                          \o [j \in 1 .. Len(above) \div 2 |->
                                                << above[2 * j - 1], above[2 * j] >>])))

\* loads(bytes)
loads(b) == Unpickle(b, 1, <<>>).value

\* The orders in which the keys S of a dict may be iterated.
Orderings(S) ==
    { s \in [1 .. Cardinality(S) -> S] : \A i, j \in 1 .. Cardinality(S) : s[i] = s[j] => i = j }

\* StoredFieldWriter.__init__: write_long(0), write_uint(0), and
\* name_map[name] = i for i, name in enumerate(fieldnames).
StoredFieldWriter_init(fieldnames) ==
    [file |-> Write(EmptyFile, 0, pack_long(0) \o pack_uint(0)),
     fpos |-> LONG_SIZE + INT_SIZE,
     length |-> 0,
     directory |-> <<>>,
     name_map |-> [name \in { fieldnames[i] : i \in 1 .. Len(fieldnames) } |->
                     (CHOOSE i \in 1 .. Len(fieldnames) :
                         /\ fieldnames[i] = name
                         /\ \A j \in i + 1 .. Len(fieldnames) : fieldnames[j] # name) - 1]]

\* VList without the tuples of the names the writer does not know.
VList_NoExtras(name_map, values, dyn) ==
    [i \in 1 .. Cardinality(DOMAIN name_map) |->
        IF \E k \in DOMAIN values : k \in DOMAIN name_map /\ name_map[k] = i - 1
        THEN values[CHOOSE k \in DOMAIN values : k \in DOMAIN name_map /\ name_map[k] = i - 1]
        ELSE PNone]

\* The vlist of StoredFieldWriter.append: the value of each known field at the
\* place name_map gives it, None for the others, then a (name, value) tuple
\* for each field name_map does not know, in the order dyn.
VList(name_map, values, dyn) ==
    [i \in 1 .. Cardinality(DOMAIN name_map) |->
        IF \E k \in DOMAIN values : k \in DOMAIN name_map /\ name_map[k] = i - 1
        THEN values[CHOOSE k \in DOMAIN values : k \in DOMAIN name_map /\ name_map[k] = i - 1]
        ELSE PNone]
    \o [j \in 1 .. Len(dyn) |-> PTuple(PStr(dyn[j]), values[dyn[j]])]

\* StoredFieldWriter.append(values), the dict being iterated in an order that
\* gives the unknown fields in the order dyn.
StoredFieldWriter_append(w, values, dyn) ==
    LET d == dumps(PList(VList(w.name_map, values, dyn)))
        v == SubSeq(d, 3, Len(d) - 1)
    IN  [w EXCEPT !.length = w.length + 1,
                  !.directory = Append(w.directory, pack_stored_pointer(w.fpos, Len(v))),
                  !.file = IF Len(v) = 0 THEN w.file ELSE Write(w.file, w.fpos, v),
                  !.fpos = w.fpos + Len(v)]

\* StoredFieldWriter.close, name_map being pickled with its keys in the order
\* ord: the pickle, the pointers, then at 0 the position of the pickle and
\* the number of documents.
StoredFieldWriter_close(w, ord) ==
    LET directory_pos == w.fpos
        pickle == dumps(PDict([i \in 1 .. Len(ord) |->
                                 << PStr(ord[i]), PInt(w.name_map[ord[i]]) >>]))
        pairs == IF Len(w.directory) = 0 THEN <<>>
                 ELSE ConcatAll(w.directory, 1, Len(w.directory))
        f1 == Write(w.file, directory_pos, pickle \o pairs)
    IN  [w EXCEPT !.file = Write(f1, 0, pack_long(directory_pos) \o pack_uint(w.length)),
                  !.fpos = LONG_SIZE + INT_SIZE]

\* StoredFieldReader.__init__
StoredFieldReader_init(f) ==
    LET pos == unpack_long(Read(f, 0, LONG_SIZE))
        length == unpack_uint(Read(f, LONG_SIZE, INT_SIZE))
        u == Unpickle(Read(f, pos, f.size - pos), 1, <<>>)
        name_map == u.value.v
    IN  [length |-> length,
         names |-> [i \in 1 .. Len(name_map) |->
                      (CHOOSE kv \in { name_map[j] : j \in 1 .. Len(name_map) } :
                          kv[2].v[1] = i - 1)[1].v],
         directory_offset |-> pos + u.next - 1]

\* if num > self.length - 1: raise IndexError
OutOfRange(r, num) == num > r.length - 1

\* start = self.directory_offset + num * stored_pointer_size
PointerStart(r, num) == r.directory_offset + num * (stored_pointer_size)

\* What __getitem__ makes of the pointer bytes it has read: the exception for
\* a short read, the error of loads, else the dict of the pickled list the pointer leads to: the
\* names with the values that are not None, and the items after them.
DecodeStored(r, f, ptr) ==
    IF Len(ptr) # stored_pointer_size THEN [kind |-> "Exception", values |-> <<>>]
    ELSE IF loads(Read(f, unpack_stored_pointer(ptr)[1], unpack_stored_pointer(ptr)[2])
                  \o <<46>>).t = "UnpicklingError"
    THEN [kind |-> "UnpicklingError", values |-> <<>>]
    ELSE
        LET pl == unpack_stored_pointer(ptr)
            vlist == loads(Read(f, pl[1], pl[2]) \o <<46>>).v
            known == { i \in 1 .. Len(r.names) : vlist[i].t # "None" }
            extra == { i \in Len(r.names) + 1 .. Len(vlist) : TRUE }
            place(k) == IF \E i \in extra : vlist[i].v[1].v = k
                        THEN CHOOSE i \in extra :
                                /\ vlist[i].v[1].v = k
                                /\ \A j \in extra : vlist[j].v[1].v = k => j <= i
                        ELSE CHOOSE i \in known : r.names[i] = k
        IN  [kind |-> "ok",
             values |-> [k \in { r.names[i] : i \in known }
                                 \cup { vlist[i].v[1].v : i \in extra } |->
                           IF place(k) \in extra THEN vlist[place(k)].v[2]
                           ELSE vlist[place(k)]]]

\* StoredFieldReader.__getitem__(num) with nothing else running.
getitem(r, f, num) ==
    IF OutOfRange(r, num) THEN [kind |-> "IndexError", values |-> <<>>]
    ELSE DecodeStored(r, f, Read(f, PointerStart(r, num), stored_pointer_size))

\* The (position, length) of what __getitem__(num) reads of the file: the
\* dbfile.read(stored_pointer_size) at start, then the slice of dbfile.map.
getitem_reads(r, f, num) ==
    IF OutOfRange(r, num) THEN <<>>
    ELSE LET ptr == Read(f, PointerStart(r, num), stored_pointer_size)
         IN  << << PointerStart(r, num), stored_pointer_size >> >>
             \o (IF Len(ptr) # stored_pointer_size THEN <<>>
                 ELSE << unpack_stored_pointer(ptr) >>)

\* ---------------------------------------------------------------- TermInfo

\* A Python float: sign s, exponent e, and the 53 bits of the mantissa as
\* the upper 24 (hi, the leading 1 among them) and the lower 29 (lo); 0.0 is
\* hi = 0. Struct "f" keeps the upper 24 bits, rounded to nearest, ties to
\* even, in the sign bit, 8 bits of e + 127 and the 23 bits under the leading 1.
Float(s, e, hi, lo) == [s |-> s, e |-> e, hi |-> hi, lo |-> lo]
FloatZero == Float(0, -127, 0, 0)

pack_float(x) ==
    LET up == x.lo > 268435456 \/ (x.lo = 268435456 /\ x.hi % 2 = 1)
        r == IF up THEN x.hi + 1 ELSE x.hi
        m == IF r = 16777216 THEN 8388608 ELSE r
        E == IF x.hi = 0 THEN 0 ELSE IF r = 16777216 THEN x.e + 128 ELSE x.e + 127
    IN  << x.s * 128 + (E \div 2),
           (E % 2) * 128 + ((m \div 65536) % 128),
           (m \div 256) % 256,
           m % 256 >>

unpack_float(b) ==
    LET E == (b[1] % 128) * 2 + (b[2] \div 128)
        frac == (b[2] % 128) * 65536 + b[3] * 256 + b[4]
    IN  IF E = 0 /\ frac = 0 THEN FloatZero
        ELSE Float(b[1] \div 128, E - 127, 8388608 + frac, 0)

\* whoosh.util.length_to_byte and byte_to_length, the one-byte logarithmic
\* code of a length, at the lengths and bytes used here.
length_to_byte(length) ==
    CASE length >= 108116 -> 255
      [] length = 100 -> 48
      [] length = 42 -> 29
      [] length = 3 -> 3
      [] length = 0 -> 0

byte_to_length(n) ==
    CASE n = 255 -> 106374
      [] n = 48 -> 101
      [] n = 29 -> 42
      [] n = 3 -> 3
      [] n = 0 -> 0

\* TermInfo(weight, docfreq, minlength, maxlength, maxweight, maxwol, postings)
TermInfo(weight, docfreq, minlength, maxlength, maxweight, maxwol, postings) ==
    [weight |-> weight, docfreq |-> docfreq, minlength |-> minlength,
     maxlength |-> maxlength, maxweight |-> maxweight, maxwol |-> maxwol,
     postings |-> postings]

\* struct = Struct("!fIBBff")
TermInfo_struct_size == 18

\* TermInfo.to_string
to_string(ti) ==
    LET ml == length_to_byte(ti.minlength)
        xl == length_to_byte(ti.maxlength)
        st == pack_float(ti.weight) \o pack_uint(ti.docfreq) \o <<ml, xl>>
              \o pack_float(ti.maxweight) \o pack_float(ti.maxwol)
    IN  IF ti.postings.t = "tuple"
        THEN <<1>> \o st \o SubSeq(dumps(ti.postings), 3, Len(dumps(ti.postings)) - 1)
        ELSE <<0>> \o st \o pack_long(IF ti.postings = PNone THEN -1 ELSE ti.postings.v[1])

\* TermInfo.from_string: the TermInfo, or the exception for a first byte of 2
\* or more.
from_string(s) ==
    LET hbyte == s[1]
        st == SubSeq(s, 2, TermInfo_struct_size + 1)
        pstr == SubSeq(s, TermInfo_struct_size + 2, Len(s))
    IN  IF hbyte < 2
        THEN TermInfo(unpack_float(SubSeq(st, 1, 4)),
                      unpack_uint(SubSeq(st, 5, 8)),
                      byte_to_length(st[9]),
                      byte_to_length(st[10]),
                      unpack_float(SubSeq(st, 11, 14)),
                      unpack_float(SubSeq(st, 15, 18)),
                      IF hbyte = 0 THEN PInt(unpack_long(pstr)) ELSE loads(pstr \o <<46>>))
        ELSE [exception |-> "Unknown struct header"]

\* ------------------------------------------- the term index, the term vectors

\* pack_ushort: Struct("!H")
pack_ushort(n) == << n \div 256, n % 256 >>

\* utf8encode(text)[0], text being a sequence of code points below 2048
utf8encode(text) ==
    IF Len(text) = 0 THEN <<>>
    ELSE ConcatAll([i \in 1 .. Len(text) |->
                      IF text[i] < 128 THEN << text[i] >>
                      ELSE << 192 + (text[i] \div 64), 128 + (text[i] % 64) >>],
                   1, Len(text))

\* The field number of the keycoder of the writers: that of fieldmap, or
\* fieldcounter for a new name, which is then put in fieldmap.
\* c = [fieldcounter, fieldmap]; the number and the new c.
FieldNumber(c, fieldname) ==
    IF fieldname \in DOMAIN c.fieldmap
    THEN [fieldnum |-> c.fieldmap[fieldname], c |-> c]
    ELSE [fieldnum |-> c.fieldcounter,
          c |-> [c EXCEPT !.fieldmap = (fieldname :> c.fieldcounter) @@ c.fieldmap,
                          !.fieldcounter = c.fieldcounter + 1]]

\* TermIndexWriter.keycoder((fieldname, text))
TermIndexWriter_keycoder(c, key) ==
    LET fn == FieldNumber(c, key[1])
    IN  [key |-> pack_ushort(fn.fieldnum) \o utf8encode(key[2]), c |-> fn.c]

\* TermVectorWriter.keycoder((docnum, fieldname)): _vectorkey_struct is "!IH"
TermVectorWriter_keycoder(c, key) ==
    LET fn == FieldNumber(c, key[2])
    IN  [key |-> pack_uint(key[1]) \o pack_ushort(fn.fieldnum), c |-> fn.c]

\* TermIndexWriter.close between the index and _write_directory:
\* dbfile.write_pickle(self.fieldmap), the dict being iterated in the order ord
FieldMapPickle(fieldmap, ord) ==
    dumps(PDict([i \in 1 .. Len(ord) |-> << PStr(ord[i]), PInt(fieldmap[ord[i]]) >>]))

\* TermIndexReader.__init__ after that of OrderedHashReader: the fieldmap
\* read at indexbase + length * _LONG_SIZE.
TermIndexReader_fieldmap(r, f) ==
    LET pos == r.indexbase + r.length * LONG_SIZE
        d == Unpickle(Read(f, pos, f.size - pos), 1, <<>>).value.v
    IN  [name \in { d[i][1].v : i \in 1 .. Len(d) } |->
            (CHOOSE kv \in { d[i] : i \in 1 .. Len(d) } : kv[1].v = name)[2].v[1]]

\* TermIndexReader_keycoder with 0 for the number of a name that is not in
\* fieldmap.
TermIndexReader_keycoder_Zero(fieldmap, key) ==
    pack_ushort(IF key[1] \in DOMAIN fieldmap THEN fieldmap[key[1]] ELSE 0)
    \o utf8encode(key[2])

\* TermIndexReader.keycoder: fnum = self.fieldmap.get(fieldname, 65535)
TermIndexReader_keycoder(fieldmap, key) ==
    pack_ushort(IF key[1] \in DOMAIN fieldmap THEN fieldmap[key[1]] ELSE 65535)
    \o utf8encode(key[2])

\* TermVectorReader.keycoder: self.fieldmap[key[1]] raises KeyError
TermVectorReader_keycoder(fieldmap, key) ==
    IF key[2] \in DOMAIN fieldmap THEN pack_uint(key[1]) \o pack_ushort(fieldmap[key[2]])
    ELSE KeyError

\* The keycoder of the reader of the kind.
keycoder(kind, fieldmap, key) ==
    IF kind = "index" THEN TermIndexReader_keycoder(fieldmap, key)
    ELSE TermVectorReader_keycoder(fieldmap, key)

\* What a call gives: the value it returns, or the exception it raises.
Returns(t, v) == [kind |-> "returns", t |-> t, v |-> v]
Raises(e) == [kind |-> e, t |-> "None", v |-> <<>>]

\* The valuedecoder of the reader of the kind, on a Python value v:
\* TermInfo.from_string(v) or unpack_long(v)[0]. None cannot be indexed or
\* unpacked; from_string takes s[0] of the string, unpack_long wants 8 bytes.
valuedecoder(kind, v) ==
    IF v.t # "str" THEN Raises("TypeError")
    ELSE IF kind = "index"
         THEN IF Len(v.v) = 0 THEN Raises("IndexError")
              ELSE IF v.v[1] >= 2 THEN Raises("Exception")
              ELSE Returns("TermInfo", << from_string(v.v) >>)
         ELSE IF Len(v.v) # LONG_SIZE THEN Raises("struct.error")
              ELSE Returns("int", << unpack_long(v.v) >>)

\* HashReader.__contains__
HashReader_contains(r, f, key) == Len(ranges_for_key(r, f, key)) > 0

\* CodedOrderedReader.__contains__: False for the KeyError of keycoder
CodedOrderedReader_contains(kind, fieldmap, r, f, key) ==
    IF keycoder(kind, fieldmap, key) = KeyError THEN FALSE
    ELSE HashReader_contains(r, f, keycoder(kind, fieldmap, key))

\* CodedOrderedReader.get: self.valuedecoder(self._get(k, default))
CodedOrderedReader_get(kind, fieldmap, r, f, key, default) ==
    LET k == keycoder(kind, fieldmap, key)
        a == all(r, f, k)
    IN  IF k = KeyError THEN Raises("KeyError")
        ELSE valuedecoder(kind, IF Len(a) > 0 THEN PStr(a[1]) ELSE default)

\* CodedOrderedReader.__getitem__: self.valuedecoder(self._getitem(k))
CodedOrderedReader_getitem(kind, fieldmap, r, f, key) ==
    LET k == keycoder(kind, fieldmap, key)
        a == all(r, f, k)
    IN  IF k = KeyError THEN Raises("KeyError")
        ELSE IF Len(a) > 0 THEN valuedecoder(kind, PStr(a[1]))
        ELSE Raises("KeyError")

\* ------------------------------------------------------------ the lengths

\* LengthWriter.add(docnum, fieldname, byte) on self.lengths, a mapping of
\* field names to arrays of doccount bytes.
LengthWriter_add(lengths, doccount, docnum, fieldname, byte) ==
    IF byte # 0
    THEN LET ls == IF fieldname \in DOMAIN lengths THEN lengths
                   ELSE (fieldname :> [i \in 1 .. doccount |-> 0]) @@ lengths
         IN  [ls EXCEPT ![fieldname][docnum + 1] = byte]
    ELSE lengths

RECURSIVE LengthWriter_add_all(_, _, _, _)
\* LengthWriter.add_all(items): for docnum, fieldname, byte in items (its)
LengthWriter_add_all(lengths, doccount, its, i) ==
    IF i > Len(its) THEN lengths
    ELSE LengthWriter_add_all(
             LengthWriter_add(lengths, doccount, its[i][1], its[i][2], its[i][3]),
             doccount, its, i + 1)

\* LengthReader.get(docnum, fieldname, default): the default, or
\* byte_to_length of `lengths[fieldname][docnum] or default`
LengthReader_get(lengths, docnum, fieldname, default) ==
    IF fieldname \notin DOMAIN lengths
    THEN [kind |-> "default", byte |-> 0, v |-> default]
    ELSE LET byte == IF lengths[fieldname][docnum + 1] # 0
                     THEN lengths[fieldname][docnum + 1] ELSE default
         IN  [kind |-> "length", byte |-> byte, v |-> byte_to_length(byte)]

\* ------------------------------------------------------ the state machine

VARIABLES
    ordered,        \* TRUE: an OrderedHashWriter / OrderedHashReader
    file,           \* the bytes of dbfile at the positions written so far
    fpos,           \* dbfile.tell()
    hashes,         \* HashWriter.hashes: bucket number -> list of (hash, pos)
    index,          \* OrderedHashWriter.index
    lastkey,        \* OrderedHashWriter.lastkey
    directory,      \* HashWriter.directory
    end_of_hashes,  \* HashWriter._end_of_hashes
    pc,             \* the writer: "open", "hashes", "index", "closed"
    added,          \* the (key, value) pairs written so far, in order
    err,            \* whether the add_all call that has just returned raised
                    \* the ordering error (ValueError)
    reader,         \* the fields of the reader object
    rpc,            \* the reader: "none", "open"
    result,         \* the last lookup and what it returned
    sfw,            \* the StoredFieldWriter: its file and position, length,
                    \* directory, name_map
    sfpc,           \* the stored fields file: "open", "closed", "reading"
    docs,           \* the documents appended so far, in order
    sfr,            \* the fields of the StoredFieldReader
    sfpos,          \* the position of the dbfile of the StoredFieldReader
    thread,         \* each thread's place in __getitem__ and its locals
    sfres,          \* the reader[num] of a single caller: num, what came of
                    \* it, what it read
    term,           \* a TermInfo, the string to_string made of it, the
                    \* TermInfo from_string made of the string
    coded,          \* the kind of coded writer and reader ("index",
                    \* "vector"), the writer's fieldcounter and fieldmap,
                    \* the reader's fieldmap
    lens            \* LengthWriter.lengths, which its reader() shares; the
                    \* byte last stored for each field and document, the
                    \* number of add and add_all calls, the last get

HashVars == << ordered, file, fpos, hashes, index, lastkey, directory, end_of_hashes,
               pc, added, err, reader, rpc, result >>

SFVars == << sfw, sfpc, docs, sfr, sfpos, thread, sfres >>

OtherVars == << term, lens >>

vars == << HashVars, SFVars, OtherVars, coded >>

Threads == {"A", "B"}

\* The fields the writer is made with, and one it does not know.
FieldA == <<97>>
FieldB == <<98>>
FieldZ == <<122>>
FieldNames == <<FieldA, FieldB>>

NoSFReader == [length |-> 0, names |-> <<>>, directory_offset |-> 0]
NoCall == [pc |-> "idle", num |-> 0, start |-> 0, ptr |-> <<>>,
           result |-> [kind |-> "none", values |-> <<>>]]

NoSFResult == [num |-> 0, kind |-> "none", values |-> <<>>, reads |-> <<>>]

NoTerm == [pc |-> "none", ti |-> <<>>, s |-> <<>>, back |-> <<>>]

NoCoded == [kind |-> "none", fieldcounter |-> 0, fieldmap |-> <<>>, rfieldmap |-> <<>>]

NoLens == [lengths |-> <<>>,
           stored |-> [f \in {FieldA, FieldB}, d \in 0 .. MaxDocs - 1 |-> 0],
           calls |-> 0,
           res |-> [kind |-> "none", docnum |-> 0, fieldname |-> <<>>, default |-> 0,
                    byte |-> 0, v |-> 0]]

NoReader == [old_format |-> FALSE, header_size |-> 0, end_of_hashes |-> 0,
             buckets |-> <<>>, start_of_hashes |-> 0, pointer_size |-> 0,
             is_closed |-> FALSE, map |-> FALSE, dbfile_closes |-> 0,
             length |-> 0, indexbase |-> 0]
NoResult == [op |-> "none", key |-> None, out |-> <<>>, pos |-> NoPos]

\* HashWriter.__init__ / OrderedHashWriter.__init__: the file position is
\* header_size, nothing is written, every bucket list is empty.
Init ==
    /\ ordered \in BOOLEAN
    /\ file = EmptyFile
    /\ fpos = header_size
    /\ hashes = [b \in 0 .. NumBuckets - 1 |-> <<>>]
    /\ index = <<>>
    /\ lastkey = None
    /\ directory = <<>>
    /\ end_of_hashes = 0
    /\ pc = "open"
    /\ added = <<>>
    /\ err = FALSE
    /\ reader = NoReader
    /\ rpc = "none"
    /\ result = NoResult
    /\ sfw = StoredFieldWriter_init(FieldNames)
    /\ sfpc = "open"
    /\ docs = <<>>
    /\ sfr = NoSFReader
    /\ sfpos = 0
    /\ thread = [t \in Threads |-> NoCall]
    /\ sfres = NoSFResult
    /\ term = NoTerm
    /\ coded = NoCoded
    /\ lens = NoLens

\* The item lists an add_all call may be given in this state.
CallInputs ==
    UNION { [1 .. n -> Items] : n \in 1 .. Min(MaxCall, MaxRecords - Len(added)) }

ReaderVars == << reader, rpc, result >>

\* HashWriter.add_all(items)
HW_add_all(its) ==
    \E st \in {HashWriter_add_all(
                  [file |-> file, fpos |-> fpos, pos |-> fpos, hashes |-> hashes,
                   added |-> added], its, 1)} :
        /\ file' = st.file
        /\ fpos' = st.fpos
        /\ hashes' = st.hashes
        /\ added' = st.added
        /\ err' = FALSE
        /\ UNCHANGED << ordered, index, lastkey, directory, end_of_hashes, pc >>
        /\ UNCHANGED ReaderVars
        /\ UNCHANGED << SFVars, OtherVars >>

\* OrderedHashWriter.add_all(items): self.lastkey is assigned after the loop,
\* so a call that raises leaves it as it was.  added takes the items the
\* loop got through.
OHW_add_all(its) ==
    /\ added' = added \o SubSeq(its, 1, Passed(its, lastkey, 1))
    /\ \E st \in {OrderedHashWriter_add_all(
                  [file |-> file, fpos |-> fpos, pos |-> fpos, hashes |-> hashes,
                   index |-> index, lk |-> lastkey, err |-> FALSE],
                  its, 1)} :
        /\ file' = st.file
        /\ fpos' = st.fpos
        /\ hashes' = st.hashes
        /\ index' = st.index
        /\ lastkey' = IF st.err THEN lastkey ELSE st.lk
        /\ err' = st.err
        /\ UNCHANGED << ordered, directory, end_of_hashes, pc >>
        /\ UNCHANGED ReaderVars
        /\ UNCHANGED << SFVars, OtherVars >>

AddAll ==
    /\ pc = "open"
    /\ \E its \in CallInputs :
          IF ordered THEN OHW_add_all(its) ELSE HW_add_all(its)
    /\ UNCHANGED coded

\* add(key, value): add_all(((key, value),))
Add ==
    /\ pc = "open"
    /\ Len(added) < MaxRecords
    /\ \E it \in Items :
          IF ordered THEN OHW_add_all(<< it >>) ELSE HW_add_all(<< it >>)
    /\ UNCHANGED coded

\* close(), first step: self._write_hashes()
CloseWriteHashes ==
    /\ pc = "open"
    /\ \E st \in {_write_hashes(file, fpos, hashes)} :
           /\ file' = st.file
           /\ fpos' = st.fpos
           /\ directory' = st.directory
           /\ end_of_hashes' = st.fpos
    /\ pc' = "hashes"
    /\ err' = FALSE
    /\ UNCHANGED << ordered, hashes, index, lastkey, added >>
    /\ UNCHANGED ReaderVars
    /\ UNCHANGED << SFVars, OtherVars, coded >>

\* OrderedHashWriter.close(), second step: the count and the offsets of index
CloseWriteIndex ==
    /\ pc = "hashes"
    /\ ordered
    /\ file' = Write(file, fpos, IndexBlock(index))
    /\ fpos' = fpos + Len(IndexBlock(index))
    /\ pc' = "index"
    /\ UNCHANGED << ordered, hashes, index, lastkey, directory, end_of_hashes, added, err >>
    /\ UNCHANGED ReaderVars
    /\ UNCHANGED << SFVars, OtherVars, coded >>

\* close(), last step: self._write_directory(); self.dbfile.close()
CloseWriteDirectory ==
    /\ pc = (IF ordered THEN "index" ELSE "hashes")
    /\ \E st \in {_write_directory(file, directory, end_of_hashes)} :
           /\ file' = st.file
           /\ fpos' = st.fpos
    /\ pc' = "closed"
    /\ UNCHANGED << ordered, hashes, index, lastkey, directory, end_of_hashes, added, err >>
    /\ UNCHANGED ReaderVars
    /\ UNCHANGED << SFVars, OtherVars, coded >>

WriterVars == << ordered, file, fpos, hashes, index, lastkey, directory,
                 end_of_hashes, pc, added, err >>

\* HashReader(dbfile) / OrderedHashReader(dbfile) on the closed file
OpenReader ==
    /\ pc = "closed"
    /\ rpc = "none"
    /\ reader' = IF ordered THEN OrderedHashReader_init(file) ELSE HashReader_init(file)
    /\ rpc' = "open"
    /\ UNCHANGED result
    /\ UNCHANGED WriterVars
    /\ UNCHANGED << SFVars, OtherVars, coded >>

\* reader.get(key) and list(reader.all(key)).  A lookup changes nothing but
\* result, so one lookup for each reader reaches every result there is.
Lookup ==
    /\ rpc = "open"
    /\ ~reader.is_closed
    /\ result = NoResult
    /\ \E key \in Keys :
          result' = [op |-> "lookup", key |-> key,
                     out |-> << get(reader, file, key, None), all(reader, file, key),
                                HashReader_getitem(reader, file, key) >>,
                     pos |-> NoPos]
    /\ UNCHANGED << reader, rpc >>
    /\ UNCHANGED WriterVars
    /\ UNCHANGED << SFVars, OtherVars, coded >>

\* list(reader.items())
IterItems ==
    /\ rpc = "open"
    /\ ~reader.is_closed
    /\ result = NoResult
    /\ result' = [op |-> "items", key |-> None, out |-> items(reader, file), pos |-> NoPos]
    /\ UNCHANGED << reader, rpc >>
    /\ UNCHANGED WriterVars
    /\ UNCHANGED << SFVars, OtherVars, coded >>

\* list(reader.items_from(key)), with the position _closest_key gave it
IterItemsFrom ==
    /\ rpc = "open"
    /\ ~reader.is_closed
    /\ result = NoResult
    /\ ordered
    /\ \E key \in Keys :
          result' = [op |-> "items_from", key |-> key,
                     out |-> items_from(reader, file, key),
                     pos |-> _closest_key(reader, file, key)]
    /\ UNCHANGED << reader, rpc >>
    /\ UNCHANGED WriterVars
    /\ UNCHANGED << SFVars, OtherVars, coded >>

\* reader.close()
Close ==
    /\ rpc = "open"
    /\ \E c \in {HashReader_close(reader)} :
          /\ reader' = c.r
          /\ result' = [op |-> "close", key |-> None, pos |-> NoPos,
                        out |-> IF c.raised THEN <<"Exception">> ELSE <<>>]
    /\ UNCHANGED rpc
    /\ UNCHANGED WriterVars
    /\ UNCHANGED << SFVars, OtherVars, coded >>

Next ==
    \/ AddAll
    \/ Add
    \/ CloseWriteHashes
    \/ CloseWriteIndex
    \/ CloseWriteDirectory
    \/ OpenReader
    \/ Lookup
    \/ IterItems
    \/ IterItemsFrom
    \/ Close

Spec == Init /\ [][Next]_vars

\* ----------------------------------- the stored fields and their two readers

\* The documents given to append.
StoredDocs ==
    { (FieldA :> PStr(<<120>>)),
      (FieldB :> PStr(<<120>>)) @@ (FieldZ :> PStr(<<>>)),
      <<>> }

\* The documents given to append where one caller reads them back: also a
\* None under a name of the writer, and a None under another name.
StoredDocsSeq ==
    StoredDocs \cup { (FieldA :> PNone) @@ (FieldB :> PStr(<<121>>)),
                      (FieldA :> PInt(7)) @@ (FieldZ :> PNone) }

\* The numbers that caller gives to __getitem__: also the one below 0.
NumsSeq == -1 .. MaxDocs

\* The numbers given to __getitem__: those of the documents, and the next.
Nums == 0 .. MaxDocs

\* StoredFieldWriter(dbfile, fieldnames) on a new file; no reader yet, both
\* threads before their call.
InitSF ==
    /\ Init
    /\ ordered = FALSE

\* writer.append(values)
SFAppend ==
    /\ sfpc = "open"
    /\ Len(docs) < MaxDocs
    /\ \E values \in StoredDocs :
          \E dyn \in Orderings(DOMAIN values \ DOMAIN sfw.name_map) :
             /\ sfw' = StoredFieldWriter_append(sfw, values, dyn)
             /\ docs' = Append(docs, values)
    /\ UNCHANGED << sfpc, sfr, sfpos, thread, sfres >>
    /\ UNCHANGED << HashVars, OtherVars, coded >>

\* writer.close()
SFClose ==
    /\ sfpc = "open"
    /\ \E ord \in Orderings(DOMAIN sfw.name_map) :
          sfw' = StoredFieldWriter_close(sfw, ord)
    /\ sfpc' = "closed"
    /\ UNCHANGED << docs, sfr, sfpos, thread, sfres >>
    /\ UNCHANGED << HashVars, OtherVars, coded >>

\* StoredFieldReader(dbfile) on the closed file; the position of dbfile is
\* left where read_pickle stopped.
SFOpenReader ==
    /\ sfpc = "closed"
    /\ sfr' = StoredFieldReader_init(sfw.file)
    /\ sfpos' = sfr'.directory_offset
    /\ sfpc' = "reading"
    /\ UNCHANGED << sfw, docs, thread, sfres >>
    /\ UNCHANGED << HashVars, OtherVars, coded >>

\* A thread calls reader[num]: the check of num, and start.
GetItemCall ==
    /\ sfpc = "reading"
    /\ \E t \in Threads, num \in Nums :
          /\ thread[t].pc = "idle"
          /\ thread' = [thread EXCEPT ![t] =
                IF OutOfRange(sfr, num)
                THEN [@ EXCEPT !.pc = "done", !.num = num,
                               !.result = [kind |-> "IndexError", values |-> <<>>]]
                ELSE [@ EXCEPT !.pc = "seek", !.num = num,
                               !.start = PointerStart(sfr, num)]]
    /\ UNCHANGED << sfw, sfpc, docs, sfr, sfpos, sfres >>
    /\ UNCHANGED << HashVars, OtherVars, coded >>

\* dbfile.seek(start): the position of the file object the threads share
GetItemSeek ==
    /\ \E t \in Threads :
          /\ thread[t].pc = "seek"
          /\ sfpos' = thread[t].start
          /\ thread' = [thread EXCEPT ![t].pc = "read"]
    /\ UNCHANGED << sfw, sfpc, docs, sfr, sfres >>
    /\ UNCHANGED << HashVars, OtherVars, coded >>

\* ptr = dbfile.read(stored_pointer_size): from where the position is now
GetItemRead ==
    /\ \E t \in Threads :
          /\ thread[t].pc = "read"
          /\ \E ptr \in {Read(sfw.file, sfpos, stored_pointer_size)} :
                /\ sfpos' = sfpos + Len(ptr)
                /\ thread' = [thread EXCEPT ![t].pc = "decode", ![t].ptr = ptr]
    /\ UNCHANGED << sfw, sfpc, docs, sfr, sfres >>
    /\ UNCHANGED << HashVars, OtherVars, coded >>

\* The rest of __getitem__: the check of the length of ptr, the slice of the
\* map, loads, the dict.
GetItemDecode ==
    /\ \E t \in Threads :
          /\ thread[t].pc = "decode"
          /\ thread' = [thread EXCEPT ![t].pc = "done",
                                      ![t].result = DecodeStored(sfr, sfw.file, thread[t].ptr)]
    /\ UNCHANGED << sfw, sfpc, docs, sfr, sfpos, sfres >>
    /\ UNCHANGED << HashVars, OtherVars, coded >>

NextSF ==
    \/ SFAppend
    \/ SFClose
    \/ SFOpenReader
    \/ GetItemCall
    \/ GetItemSeek
    \/ GetItemRead
    \/ GetItemDecode

SpecSF == InitSF /\ [][NextSF]_vars

\* writer.append(values), of the documents of StoredDocsSeq
SFAppendSeq ==
    /\ sfpc = "open"
    /\ Len(docs) < MaxDocs
    /\ \E values \in StoredDocsSeq :
          \E dyn \in Orderings(DOMAIN values \ DOMAIN sfw.name_map) :
             /\ sfw' = StoredFieldWriter_append(sfw, values, dyn)
             /\ docs' = Append(docs, values)
    /\ UNCHANGED << sfpc, sfr, sfpos, thread, sfres >>
    /\ UNCHANGED << HashVars, OtherVars, coded >>

\* reader[num], by the only caller there is: the whole of __getitem__.
SFGetItem ==
    /\ sfpc = "reading"
    /\ \E num \in NumsSeq :
          \E g \in {getitem(sfr, sfw.file, num)}, rd \in {getitem_reads(sfr, sfw.file, num)} :
             /\ sfres' = [num |-> num, kind |-> g.kind, values |-> g.values, reads |-> rd]
             /\ sfpos' = IF rd = <<>> THEN sfpos
                         ELSE rd[1][1] + Len(Read(sfw.file, rd[1][1], rd[1][2]))
    /\ UNCHANGED << sfw, sfpc, docs, sfr, thread >>
    /\ UNCHANGED << HashVars, OtherVars, coded >>

NextSFSeq ==
    \/ SFAppendSeq
    \/ SFClose
    \/ SFOpenReader
    \/ SFGetItem

SpecSFSeq == InitSF /\ [][NextSFSeq]_vars

\* ------------------------------------------------- what the claims speak of

\* The size of the record of one (key, value) pair.
RecordSize(it) == lengths_size + Len(it[1]) + Len(it[2])

RECURSIVE OffsetOf(_, _)
\* The offset of the i-th record of a writer that was given the pairs its.
OffsetOf(its, i) ==
    IF i = 1 THEN 16 + NumBuckets * header_entry_size
    ELSE OffsetOf(its, i - 1) + RecordSize(its[i - 1])

\* The end of the record region of a writer that was given the pairs its.
EndOfRecords(its) == OffsetOf(its, Len(its) + 1)

KeysOf(its) == { its[i][1] : i \in 1 .. Len(its) }

RECURSIVE ValuesFor(_, _, _)
\* The values of the pairs its[i..] whose key is k, in order.
ValuesFor(its, k, i) ==
    IF i > Len(its) THEN <<>>
    ELSE IF its[i][1] = k THEN <<its[i][2]>> \o ValuesFor(its, k, i + 1)
    ELSE ValuesFor(its, k, i + 1)

\* C1: get(k) on the closed file returns, for every key k that was added (the
\* empty key, keys sharing the low byte of the hash, keys sharing the whole
\* hash), the value of the first pair added with key k.
C1_GetFirstValue ==
    (rpc = "open" /\ result.op = "lookup" /\ result.key \in KeysOf(added))
        => result.out[1] = ValuesFor(added, result.key, 1)[1]

\* "05" (same hash) and then "2w" twice with two values were added, and
\* get("2w") gave the first of them.
C1_Witness ==
    /\ rpc = "open"
    /\ added = << <<Key05, ValueX>>, <<Key2w, ValueEmpty>>, <<Key2w, ValueX>> >>
    /\ result.op = "lookup"
    /\ result.key = Key2w
    /\ result.out[1] = ValueEmpty

\* C2: all(k) on the closed file yields exactly the values added with key k,
\* each once, in insertion order, and nothing for a key never added.
C2_AllInOrder ==
    (rpc = "open" /\ result.op = "lookup")
        => result.out[2] = ValuesFor(added, result.key, 1)

\* "2w" was added three times and all("2w") gave the three values in order.
C2_Witness ==
    /\ rpc = "open"
    /\ added = << <<Key2w, ValueX>>, <<Key2w, ValueEmpty>>, <<Key2w, ValueX>> >>
    /\ result.op = "lookup"
    /\ result.key = Key2w
    /\ result.out[2] = << ValueX, ValueEmpty, ValueX >>

\* The records in the bytes of f from header_size up to position p, decoded
\* with the walk of _ranges.
RecordsIn(f, p) ==
    ItemsOf(f, RangesLoop(reader, f, header_size, p))

\* The records in the file of a writer that is still open.
WrittenRecords == RecordsIn(file, fpos)

StrictlyIncreasing(its) ==
    \A i \in 1 .. Len(its) - 1 : KeyLess(its[i][1], its[i + 1][1])

\* C3: after any sequence of OrderedHashWriter.add / add_all calls, calls that
\* fail part-way and are followed by further calls included, the keys of the
\* records in the file are strictly increasing in insertion order, and index
\* holds the offsets of exactly those records in the same order.
C3_KeysIncrease ==
    (ordered /\ pc = "open")
        => /\ StrictlyIncreasing(WrittenRecords)
           /\ index = [i \in 1 .. Len(WrittenRecords) |-> OffsetOf(WrittenRecords, i)]

\* The part of C3 about index alone.
C3_IndexIsOffsets ==
    (ordered /\ pc = "open")
        => /\ WrittenRecords = added
           /\ index = [i \in 1 .. Len(WrittenRecords) |-> OffsetOf(WrittenRecords, i)]

\* The low byte of the hash of the key of each pair of its.
BucketOf(its) == [i \in 1 .. Len(its) |-> LowByte(cdb_hash(its[i][1]))]

\* Whether n items of its are accepted and item n + 1 is rejected, by a writer
\* whose lastkey is lk.
RejectedAt(its, lk, n) ==
    /\ n < Len(its)
    /\ StrictlyIncreasing(SubSeq(its, 1, n))
    /\ n > 0 => KeyLess(lk, its[1][1])
    /\ KeyLE(its[n + 1][1], IF n = 0 THEN lk ELSE its[n][1])

\* What C4 says of one add_all(its) step of an OrderedHashWriter.
C4_Step(its) ==
    /\ (\E i \in 1 .. Len(its) : KeyLE(its[i][1], lastkey)) => err'
    /\ its[1][1] = lastkey => (err' /\ added' = added /\ file' = file /\ index' = index)
    /\ lastkey = None => Len(added') >= Len(added) + 1
    /\ err' =>
         \E n \in 0 .. Len(its) - 1 :
            /\ RejectedAt(its, lastkey, n)
            /\ added' = added \o SubSeq(its, 1, n)
            /\ RecordsIn(file', fpos') = added'
            /\ fpos' = EndOfRecords(added')
            /\ file'.size = (IF added' = <<>> THEN 0 ELSE fpos')
            /\ Len(index') = Len(index) + n
            /\ \A bs \in {BucketOf(SubSeq(its, 1, n))} : \A b \in 0 .. NumBuckets - 1 :
                  Len(hashes'[b]) = Len(hashes[b])
                    + Cardinality({ i \in DOMAIN bs : bs[i] = b })
            /\ file'.lo = file'.size \/ file'.lo >= header_size
            /\ pc' = "open"

C5_ItemsRoundTrip ==
    (rpc = "open" /\ result.op = "items")
        => /\ result.out = added
           /\ RangesStart(reader) = header_size
           /\ RangesEnd(reader) = EndOfRecords(added)

\* items() gave back two pairs of a table whose bucket 0 holds slots.
C5_Witness ==
    /\ rpc = "open"
    /\ result.op = "items"
    /\ added = << <<Key2w, ValueX>>, <<KeyEmpty, ValueX>> >>
    /\ result.out = added
    /\ reader.buckets[0][2] > 0

\* The pairs of its whose key is >= q, in order.
AtLeast(its, q) == SelectSeq(its, LAMBDA it : ~KeyLess(it[1], q))

\* The places in its of the pairs whose key is >= q.
PlacesAtLeast(its, q) == { i \in 1 .. Len(its) : ~KeyLess(its[i][1], q) }

\* C6: for every table written by OrderedHashWriter and every probe key q,
\* _closest_key returns the offset of the record with the smallest key >= q,
\* or None when every key is < q, and items_from(q) yields exactly the pairs
\* whose keys are >= q, in order.
C6_ClosestKey ==
    (rpc = "open" /\ result.op = "items_from")
        => /\ IF PlacesAtLeast(added, result.key) = {} THEN result.pos = NoPos
              ELSE \E i \in PlacesAtLeast(added, result.key) :
                      /\ \A j \in PlacesAtLeast(added, result.key) :
                            KeyLE(added[i][1], added[j][1])
                      /\ result.pos = OffsetOf(added, i)
           /\ result.out = AtLeast(added, result.key)

\* C6 for the tables whose keys were written in strictly increasing order.
C6_ClosestKeySorted ==
    StrictlyIncreasing(added) => C6_ClosestKey

\* C7: until close() starts its last phase no byte of the header zone
\* [0, header_size) is written and the file does not carry the "HASH" magic;
\* the magic, end_of_hashes and the 256 directory entries are in the file only
\* once every record, the hash zone and (ordered) the index are, and after the
\* rewrite of the header the file position is header_size.
C7_HeaderLast ==
    /\ pc \in {"open", "hashes", "index"}
         => /\ file.lo = file.size \/ file.lo >= header_size
            /\ Read(file, 0, 4) # Magic
    /\ pc = "closed"
         => /\ fpos = header_size
            /\ Read(file, 0, 4) = Magic
    /\ (pc = "closed" /\ rpc = "none")
         => /\ unpack_long(Read(file, 4 + INT_SIZE, LONG_SIZE)) = end_of_hashes
            /\ \A b \in 0 .. NumBuckets - 1 :
                  unpack_header_entry(Read(file, 16 + b * header_entry_size,
                                           header_entry_size)) = directory[b + 1]
            /\ RecordsIn(file, directory[1][1]) = added
            /\ file.size = end_of_hashes
                             + (IF ordered THEN INT_SIZE + LONG_SIZE * Len(index) ELSE 0)
            /\ \A p \in 0 .. file.size - 1 : Written(file, p)

\* An ordered writer with two records was closed: the header is there, the
\* position is back at header_size.
C7_Witness ==
    /\ pc = "closed"
    /\ ordered
    /\ Len(added) = 2
    /\ Len(index) = 2
    /\ fpos = header_size
    /\ Read(file, 0, 4) = Magic

\* C8: in a closed table every bucket b has twice as many slots as there are
\* records whose hash has low byte b, none exactly when there is no such
\* record, and its table starts where the table of bucket b - 1 ends (that of
\* bucket 0 at the end of the record region).
C8_SlotCounts ==
    (rpc = "open" /\ result = NoResult)
        => \A bs \in {BucketOf(added)} : \A b \in 0 .. NumBuckets - 1 :
              /\ reader.buckets[b][2] = 2 * Cardinality({ i \in DOMAIN bs : bs[i] = b })
              /\ reader.buckets[b][2] = 0 <=> (\A i \in DOMAIN bs : bs[i] # b)
              /\ reader.buckets[b][1] =
                    IF b = 0 THEN EndOfRecords(added)
                    ELSE reader.buckets[b - 1][1] + reader.buckets[b - 1][2] * pointer_size

\* Two records in bucket 0 and one in bucket 5.
C8_Witness ==
    /\ rpc = "open"
    /\ result = NoResult
    /\ Len(added) = 3
    /\ reader.buckets[0][2] = 4
    /\ reader.buckets[5][2] = 2
    /\ reader.buckets[5][1] = EndOfRecords(added) + 4 * pointer_size
    /\ reader.buckets[6][1] = EndOfRecords(added) + 6 * pointer_size

\* Slot s (from 0) of the table of bucket b, as the file holds it.
SlotAt(f, r, b, s) ==
    unpack_pointer(Read(f, r.buckets[b][1] + s * r.pointer_size, r.pointer_size))

\* The slots of all the tables of the file: (bucket, slot number).
AllSlots(r) ==
    UNION { {b} \X (0 .. r.buckets[b][2] - 1) :
              b \in { c \in 0 .. NumBuckets - 1 : r.buckets[c][2] > 0 } }

\* C9: in a closed table, for each record at offset p with key k, exactly one
\* slot of all the tables holds (cdb_hash(k), p); it is in bucket
\* cdb_hash(k) & 255; no empty slot lies between the slot
\* (cdb_hash(k) >> 8) mod n and it; p >= header_size, so that a slot has offset
\* 0 exactly when it is empty.
C9_SlotOfRecord ==
    (rpc = "open" /\ result = NoResult)
        => /\ \A i \in 1 .. Len(added) :
                LET h == cdb_hash(added[i][1])
                    p == OffsetOf(added, i)
                    holders == { x \in AllSlots(reader) :
                                   SlotAt(file, reader, x[1], x[2]) = <<h, p>> }
                IN  /\ Cardinality(holders) = 1
                    /\ p >= header_size
                    /\ \A x \in holders :
                          LET n == reader.buckets[x[1]][2]
                              start == Shift8(h) % n
                          IN  /\ x[1] = LowByte(h)
                              /\ \A d \in 0 .. n - 1 :
                                    d < (x[2] - start + n) % n
                                      => SlotAt(file, reader, x[1], (start + d) % n)[2] # 0
           /\ \A x \in AllSlots(reader) :
                LET slot == SlotAt(file, reader, x[1], x[2])
                IN  /\ slot[2] = 0 <=> slot = null
                    /\ slot[2] # 0 =>
                          \E i \in 1 .. Len(added) :
                             slot = <<cdb_hash(added[i][1]), OffsetOf(added, i)>>

\* Three records of bucket 0 whose probes start at the same slot: "Qt" went to
\* the slot after "05", and "2w", with the hash of "05", to the one after.
C9_Witness ==
    /\ rpc = "open"
    /\ result = NoResult
    /\ added = << <<Key05, ValueX>>, <<KeyQt, ValueX>>, <<Key2w, ValueX>> >>
    /\ reader.buckets[0][2] = 6
    /\ SlotAt(file, reader, 0, ProbeStart(cdb_hash(Key05), 6))
         = <<cdb_hash(Key05), OffsetOf(added, 1)>>
    /\ SlotAt(file, reader, 0, (ProbeStart(cdb_hash(Key05), 6) + 2) % 6)
         = <<cdb_hash(Key2w), OffsetOf(added, 3)>>

\* Whether two outcomes of __getitem__ are the same: the same exception, or
\* the same dict.
SameResult(a, b) == a.kind = b.kind /\ (a.kind = "ok" => a.values = b.values)

\* C10: whatever the interleaving of the lookups of two threads on one
\* StoredFieldReader over a closed file, each reader[num] returns what it
\* returns when it runs alone.
C10_AsAlone ==
    \A t \in Threads :
        thread[t].pc = "done"
            => SameResult(thread[t].result, getitem(sfr, sfw.file, thread[t].num))

\* reader[num] with the other thread not yet in its call: what it returns
\* when it runs alone is the document that was appended, or IndexError.
GetItemAloneRight ==
    \A t \in Threads :
        (thread[t].pc = "done" /\ \A u \in Threads \ {t} : thread[u].pc = "idle")
            => /\ SameResult(thread[t].result, getitem(sfr, sfw.file, thread[t].num))
               /\ IF thread[t].num < Len(docs)
                  THEN /\ thread[t].result.kind = "ok"
                       /\ thread[t].result.values = docs[thread[t].num + 1]
                  ELSE thread[t].result.kind = "IndexError"


\* ---------------------------------- the term index and the term vectors

\* Texts: "x" and "\xe9".  A document number.  The names are FieldA, FieldB
\* and, never given to a writer, FieldZ.
TextX == <<120>>
TextE == <<233>>

\* The keys given to the writer of the kind.
TermKeys(kind) ==
    IF kind = "index" THEN { <<FieldA, TextX>>, <<FieldA, TextE>>, <<FieldB, TextX>> }
    ELSE { <<0, FieldA>>, <<0, FieldB>>, <<1, FieldA>> }

\* The keys given to the reader of the kind: those, and ones of FieldZ.
ReaderKeys(kind) ==
    TermKeys(kind) \cup (IF kind = "index" THEN { <<FieldZ, TextX>> } ELSE { <<0, FieldZ>> })

\* valuecoder of the value given to the writer of the kind: to_string of a
\* TermInfo, pack_long of an offset.
TermValue(kind) ==
    IF kind = "index"
    THEN to_string(TermInfo(Float(0, 0, 12582912, 0), 7, 3, 42, Float(0, 1, 9437184, 0),
                            Float(0, -1, 8388608, 0), PInt(123456789)))
    ELSE pack_long(5)

\* The defaults given to get: None, and a string the valuedecoder accepts.
Defaults(kind) == { PNone, PStr(TermValue(kind)) }

InitTerms ==
    /\ Init
    /\ ordered = TRUE

\* TermIndexWriter(dbfile) or TermVectorWriter(dbfile)
TermNew ==
    /\ coded.kind = "none"
    /\ \E kind \in {"index", "vector"} : coded' = [coded EXCEPT !.kind = kind]
    /\ UNCHANGED << HashVars, SFVars, OtherVars >>

\* writer.add(key, data): self._add(self.keycoder(key), self.valuecoder(data))
TermAdd ==
    /\ coded.kind # "none"
    /\ pc = "open"
    /\ Len(added) < MaxRecords
    /\ \E key \in TermKeys(coded.kind) :
          \E kc \in { IF coded.kind = "index"
                       THEN TermIndexWriter_keycoder(coded, key)
                       ELSE TermVectorWriter_keycoder(coded, key) } :
             /\ coded' = kc.c
             /\ OHW_add_all(<< << kc.key, TermValue(coded.kind) >> >>)

\* TermIndexWriter.close: _write_hashes, the index, the pickle of fieldmap,
\* _write_directory
TermClose ==
    /\ coded.kind # "none"
    /\ pc = "open"
    /\ \E ord \in Orderings(DOMAIN coded.fieldmap) :
          \E st \in {_write_hashes(file, fpos, hashes)} :
             \E f2 \in {Write(st.file, st.fpos,
                               IndexBlock(index) \o FieldMapPickle(coded.fieldmap, ord))} :
                \E st3 \in {_write_directory(f2, st.directory, st.fpos)} :
                   /\ file' = st3.file
                   /\ fpos' = st3.fpos
                   /\ directory' = st.directory
                   /\ end_of_hashes' = st.fpos
    /\ pc' = "closed"
    /\ err' = FALSE
    /\ UNCHANGED << ordered, hashes, index, lastkey, added >>
    /\ UNCHANGED ReaderVars
    /\ UNCHANGED << SFVars, OtherVars, coded >>

\* TermIndexReader(dbfile) or TermVectorReader(dbfile)
TermOpenReader ==
    /\ coded.kind # "none"
    /\ pc = "closed"
    /\ rpc = "none"
    /\ \E r \in {OrderedHashReader_init(file)} :
          /\ reader' = r
          /\ coded' = [coded EXCEPT !.rfieldmap = TermIndexReader_fieldmap(r, file)]
    /\ rpc' = "open"
    /\ UNCHANGED result
    /\ UNCHANGED WriterVars
    /\ UNCHANGED << SFVars, OtherVars >>

\* key in reader, reader.get(key, default), reader[key]
TermLookup ==
    /\ coded.kind # "none"
    /\ rpc = "open"
    /\ ~reader.is_closed
    /\ result = NoResult
    /\ \E key \in ReaderKeys(coded.kind), default \in Defaults(coded.kind) :
          result' = [op |-> "coded", key |-> key, pos |-> NoPos, default |-> default,
                     out |-> [contains |-> CodedOrderedReader_contains(
                                              coded.kind, coded.rfieldmap, reader, file, key),
                              get |-> CodedOrderedReader_get(
                                         coded.kind, coded.rfieldmap, reader, file, key, default),
                              getitem |-> CodedOrderedReader_getitem(
                                         coded.kind, coded.rfieldmap, reader, file, key)]]
    /\ UNCHANGED << reader, rpc >>
    /\ UNCHANGED WriterVars
    /\ UNCHANGED << SFVars, OtherVars, coded >>

NextTerms ==
    \/ TermNew
    \/ TermAdd
    \/ TermClose
    \/ TermOpenReader
    \/ TermLookup
    \/ Close

SpecTerms == InitTerms /\ [][NextTerms]_vars

\* The coded keys of the records there are for the reader's key: those of
\* added that equal the key coded with the writer's fieldmap, when that
\* knows the field of the key.
HasRecord(key) ==
    /\ key[IF coded.kind = "index" THEN 1 ELSE 2] \in DOMAIN coded.fieldmap
    /\ \E i \in 1 .. Len(added) :
          added[i][1] = (IF coded.kind = "index"
                         THEN TermIndexWriter_keycoder(coded, key).key
                         ELSE TermVectorWriter_keycoder(coded, key).key)

C19_GetDefault ==
    (result.op = "coded" /\ ~HasRecord(result.key)) =>
        /\ result.out.get.kind = "returns"
        /\ result.out.get.t = result.default.t
        /\ result.out.get.v = result.default.v
        /\ result.out.getitem.kind = "KeyError"

\* What there is of it: __getitem__ of a key without a record raises
\* KeyError, and get of a key with a record returns the decoded value.
C19_GetItemKeyError ==
    result.op = "coded" =>
        /\ ~HasRecord(result.key) => result.out.getitem.kind = "KeyError"
        /\ HasRecord(result.key) =>
              /\ result.out.get = valuedecoder(coded.kind, PStr(TermValue(coded.kind)))
              /\ result.out.get.kind = "returns"
              /\ result.out.contains = TRUE

\* ------------------------------------------------------------ the lengths

\* The (docnum, fieldname, byte) given to add and in the items of add_all;
\* the writer is made for MaxDocs documents.
LenItems == (0 .. MaxDocs - 1) \X {FieldA, FieldB} \X {0, 3, 29}

RECURSIVE StoredAfter(_, _, _)
\* The byte last stored for each field and document after the items: an
\* item of byte 0 stores nothing.
StoredAfter(stored, its, i) ==
    IF i > Len(its) THEN stored
    ELSE StoredAfter(IF its[i][3] = 0 THEN stored
                     ELSE [stored EXCEPT ![its[i][2], its[i][1]] = its[i][3]],
                     its, i + 1)

InitLen ==
    /\ Init
    /\ ordered = FALSE

\* writer.add(docnum, fieldname, byte)
LenAdd ==
    /\ lens.calls < MaxRecords
    /\ \E it \in LenItems :
          lens' = [lengths |-> LengthWriter_add(lens.lengths, MaxDocs, it[1], it[2], it[3]),
                   stored |-> StoredAfter(lens.stored, << it >>, 1),
                   calls |-> lens.calls + 1,
                   res |-> NoLens.res]
    /\ UNCHANGED << HashVars, SFVars, term, coded >>

\* writer.add_all(items)
LenAddAll ==
    /\ lens.calls < MaxRecords
    /\ \E n \in 1 .. MaxCall :
          \E its \in [1 .. n -> LenItems] :
             lens' = [lengths |-> LengthWriter_add_all(lens.lengths, MaxDocs, its, 1),
                      stored |-> StoredAfter(lens.stored, its, 1),
                      calls |-> lens.calls + 1,
                      res |-> NoLens.res]
    /\ UNCHANGED << HashVars, SFVars, term, coded >>

\* writer.reader().get(docnum, fieldname, default)
LenGet ==
    /\ \E docnum \in 0 .. MaxDocs - 1, fieldname \in {FieldA, FieldB, FieldZ},
           default \in {0, 3} :
          \E g \in {LengthReader_get(lens.lengths, docnum, fieldname, default)} :
             lens' = [lens EXCEPT !.res = [kind |-> g.kind, docnum |-> docnum,
                                          fieldname |-> fieldname, default |-> default,
                                          byte |-> g.byte, v |-> g.v]]
    /\ UNCHANGED << HashVars, SFVars, term, coded >>

NextLen ==
    \/ LenAdd
    \/ LenAddAll
    \/ LenGet

SpecLen == InitLen /\ [][NextLen]_vars

\* C16: after any add and add_all calls, get(doc, field, default) returns
\* byte_to_length(b), b being the byte last stored for (field, doc), 0 when
\* none was, whenever the field is known, and the default itself exactly
\* when the field is unknown; a zero byte allocates no array and changes no
\* stored byte.
C16_Get ==
    /\ DOMAIN lens.lengths = { f \in {FieldA, FieldB} :
                                 \E d \in 0 .. MaxDocs - 1 : lens.stored[f, d] # 0 }
    /\ \A f \in DOMAIN lens.lengths, d \in 0 .. MaxDocs - 1 :
          lens.lengths[f][d + 1] = lens.stored[f, d]
    /\ lens.res.kind # "none" =>
          IF lens.res.fieldname \in DOMAIN lens.lengths
          THEN /\ lens.res.kind = "length"
               /\ lens.res.byte = lens.stored[lens.res.fieldname, lens.res.docnum]
               /\ lens.res.v = byte_to_length(lens.stored[lens.res.fieldname, lens.res.docnum])
          ELSE /\ lens.res.kind = "default"
               /\ lens.res.v = lens.res.default

\* What there is of it: the arrays hold the bytes last stored, a field has an
\* array exactly when a byte other than 0 was added for it, get returns the
\* default for a field without an array, and byte_to_length of the stored
\* byte when that is not 0 or the default is 0.
C16_GetStored ==
    /\ DOMAIN lens.lengths = { f \in {FieldA, FieldB} :
                                 \E d \in 0 .. MaxDocs - 1 : lens.stored[f, d] # 0 }
    /\ \A f \in DOMAIN lens.lengths, d \in 0 .. MaxDocs - 1 :
          lens.lengths[f][d + 1] = lens.stored[f, d]
    /\ lens.res.kind # "none" =>
          IF lens.res.fieldname \in DOMAIN lens.lengths
          THEN (lens.stored[lens.res.fieldname, lens.res.docnum] # 0 \/ lens.res.default = 0) =>
                  /\ lens.res.kind = "length"
                  /\ lens.res.v = byte_to_length(lens.stored[lens.res.fieldname,
                                                              lens.res.docnum])
          ELSE /\ lens.res.kind = "default"
               /\ lens.res.v = lens.res.default

\* ------------------------------------------------------------ the probing

\* The slots of the table of bucket b that are not empty, the writer's
\* directory saying where the table is.
Occupied(b) ==
    { s \in 0 .. directory[b + 1][2] - 1 :
        unpack_pointer(Read(file, directory[b + 1][1] + s * pointer_size, pointer_size))
            # null }

\* C18: for every bucket with n > 0 slots the insertion loop of
\* _write_hashes ends for every entry, an empty slot always being left: at
\* most n/2 entries are put in the n slots.  Every lookup of ranges_for_key
\* reads at most n slots, goes from the last slot of the bucket to its first,
\* and reads no slot outside [bpos, bpos + n * pointer_size).
C18_Probing ==
    /\ (pc \in {"hashes", "index", "closed"} /\ rpc = "none") =>
          \A b \in { c \in 0 .. NumBuckets - 1 : directory[c + 1][2] > 0 } :
             /\ directory[b + 1][2] = Len(BucketTable(hashes[b]))
             /\ Read(file, directory[b + 1][1], directory[b + 1][2] * pointer_size)
                   = TableBytes(BucketTable(hashes[b]))
             /\ Cardinality(Occupied(b)) = Len(hashes[b])
             /\ 2 * Cardinality(Occupied(b)) <= directory[b + 1][2]
             /\ Cardinality(Occupied(b)) < directory[b + 1][2]
    /\ (rpc = "open" /\ ~reader.is_closed) =>
          \A k \in (IF result = NoResult THEN Keys
                     ELSE IF result.op = "lookup" THEN {result.key} ELSE {}) :
             \A tr \in {ranges_for_key_reads(reader, file, k)} :
                LET bpos == reader.buckets[LowByte(cdb_hash(k))][1]
                    n == reader.buckets[LowByte(cdb_hash(k))][2]
                IN  /\ Len(tr) <= n
                    /\ n > 0 => /\ Len(tr) >= 1
                                /\ tr[1] = bpos + (Shift8(cdb_hash(k)) % n) * pointer_size
                    /\ \A i \in 1 .. Len(tr) :
                          /\ tr[i] \in { bpos + sl * pointer_size : sl \in 0 .. n - 1 }
                          /\ i < Len(tr) =>
                                tr[i + 1] = IF tr[i] = bpos + (n - 1) * pointer_size
                                            THEN bpos ELSE tr[i] + pointer_size

\* A lookup has read the last slot of a bucket and then its first.
C18_Witness ==
    /\ rpc = "open"
    /\ result.op = "lookup"
    /\ \E tr \in {ranges_for_key_reads(reader, file, result.key)} :
          \E i \in 1 .. Len(tr) - 1 :
             /\ tr[i] = reader.buckets[LowByte(cdb_hash(result.key))][1]
                         + (reader.buckets[LowByte(cdb_hash(result.key))][2] - 1) * pointer_size
             /\ tr[i + 1] = reader.buckets[LowByte(cdb_hash(result.key))][1]

\* --------------------------------------------------------- reader.close()

\* C17: the first close() of a reader releases the map and the file and sets
\* is_closed; every later close() raises, releases nothing again and leaves
\* is_closed true; is_closed never goes back to false.
C17_Close ==
    [][ /\ reader.is_closed => reader'.is_closed
        /\ (rpc = "open" /\ result'.op = "close" /\ ~reader.is_closed) =>
              /\ reader.map /\ reader.dbfile_closes = 0
              /\ reader'.is_closed /\ ~reader'.map /\ reader'.dbfile_closes = 1
              /\ result'.out = <<>>
        /\ (rpc = "open" /\ result'.op = "close" /\ reader.is_closed) =>
              /\ result'.out = <<"Exception">>
              /\ reader' = reader
              /\ ~reader'.map /\ reader'.dbfile_closes = 1 ]_vars

\* An ordered reader has been closed, and closed again.
C17_Witness ==
    /\ ordered
    /\ Len(added) > 0
    /\ reader.is_closed
    /\ result.op = "close"
    /\ result.out = <<"Exception">>

\* ------------------------------------------------------ the empty hash file

\* C14: a writer closed with no record added leaves a valid file: each of the
\* 256 directory entries has the position header_size and 0 slots,
\* end_of_hashes is header_size, the reader's start_of_hashes is header_size,
\* get returns the default and __getitem__ raises KeyError for every key,
\* and items() yields nothing, no record being read.
C14_EmptyFile ==
    /\ (pc = "closed" /\ added = <<>>) =>
          /\ directory = [b \in 1 .. NumBuckets |-> <<header_size, 0>>]
          /\ end_of_hashes = header_size
          /\ \A b \in 0 .. NumBuckets - 1 :
                unpack_header_entry(Read(file, 16 + b * header_entry_size, header_entry_size))
                    = <<header_size, 0>>
          /\ unpack_long(Read(file, 8, LONG_SIZE)) = header_size
    /\ (rpc = "open" /\ added = <<>>) =>
          /\ reader.start_of_hashes = header_size
          /\ end_of_hashes_of(reader) = header_size
          /\ \A b \in 0 .. NumBuckets - 1 : reader.buckets[b] = <<header_size, 0>>
          /\ \A k \in Keys :
                /\ get(reader, file, k, None) = None
                /\ get(reader, file, k, ValueX) = ValueX
                /\ HashReader_getitem(reader, file, k) = KeyError
          /\ _ranges(reader, file, NoPos) = <<>>
          /\ ~(RangesStart(reader) < RangesEnd(reader))
          /\ result.op = "lookup" => result.out = << None, <<>>, KeyError >>
          /\ result.op = "items" => result.out = <<>>

\* A key has been looked up in the file of a writer closed with no record.
C14_Witness ==
    /\ rpc = "open"
    /\ added = <<>>
    /\ result.op = "lookup"
    /\ result.key = Key05
    /\ result.out[3] = KeyError

\* ------------------------------------------------- TermInfo, there and back

F1_5 == Float(0, 0, 12582912, 0)
F0_1 == Float(0, -4, 13421772, 429496730)
F2_25 == Float(0, 1, 9437184, 0)
F0_5 == Float(0, -1, 8388608, 0)

\* The TermInfo objects given to to_string.
TermInfos ==
    { TermInfo(w, df, ml, xl, F2_25, F0_5, p) :
        w \in {F1_5, F0_1}, df \in {0, 7}, ml \in {3, 100}, xl \in {42, 200000},
        p \in {PNone, PInt(0), PInt(123456789), PTuple3(PInt(1), PInt(2), PInt(3))} }

InitTI ==
    /\ Init
    /\ ordered = FALSE

\* ti = TermInfo(...)
TINew ==
    /\ term.pc = "none"
    /\ \E ti \in TermInfos : term' = [NoTerm EXCEPT !.pc = "new", !.ti = ti]
    /\ UNCHANGED << HashVars, SFVars, coded, lens >>

\* s = ti.to_string()
TIToString ==
    /\ term.pc = "new"
    /\ term' = [term EXCEPT !.pc = "string", !.s = to_string(term.ti)]
    /\ UNCHANGED << HashVars, SFVars, coded, lens >>

\* TermInfo.from_string(s)
TIFromString ==
    /\ term.pc = "string"
    /\ term' = [term EXCEPT !.pc = "back", !.back = from_string(term.s)]
    /\ UNCHANGED << HashVars, SFVars, coded, lens >>

NextTI ==
    \/ TINew
    \/ TIToString
    \/ TIFromString

SpecTI == InitTI /\ [][NextTI]_vars

\* C13: from_string(ti.to_string()) has every field of ti: weight, docfreq,
\* minlength, maxlength, maxweight, maxwol and postings, for every TermInfo.
C13_RoundTrip ==
    term.pc = "back" => term.back = term.ti

\* What does come back as given: docfreq, maxweight and maxwol here; the
\* weight 1.5; the lengths 3 and 42; an integer or a tuple of postings, after
\* the byte 0 for the integer and 1 for the tuple.
C13_WhatComesBack ==
    term.pc = "back" =>
        /\ term.back.docfreq = term.ti.docfreq
        /\ term.back.maxweight = term.ti.maxweight
        /\ term.back.maxwol = term.ti.maxwol
        /\ term.ti.weight = F1_5 => term.back.weight = term.ti.weight
        /\ term.ti.minlength = 3 => term.back.minlength = 3
        /\ term.ti.maxlength = 42 => term.back.maxlength = 42
        /\ term.ti.postings # PNone => term.back.postings = term.ti.postings
        /\ term.s[1] = (IF term.ti.postings.t = "tuple" THEN 1 ELSE 0)

\* ------------------------------------------- the stored fields, read back

\* The mapping m without the entries of a name of the writer whose value is
\* None; the entries of the other names all stay.
Restricted(m) ==
    [k \in { k \in DOMAIN m :
                (\E i \in 1 .. Len(FieldNames) : FieldNames[i] = k) => m[k] # PNone } |-> m[k]]

\* C11: once the documents m_0 .. m_{N-1} are appended and the writer is
\* closed, the header holds the count N, and reader[i] for each i in [0, N)
\* is m_i without the None values of the writer's names and with every entry
\* of the other names.
C11_RoundTrip ==
    sfpc = "reading" =>
        /\ unpack_uint(Read(sfw.file, LONG_SIZE, INT_SIZE)) = Len(docs)
        /\ sfr.length = Len(docs)
        /\ \A i \in 0 .. Len(docs) - 1 :
              getitem(sfr, sfw.file, i) = [kind |-> "ok", values |-> Restricted(docs[i + 1])]
        /\ (sfres.kind # "none" /\ sfres.num \in 0 .. Len(docs) - 1) =>
              /\ sfres.kind = "ok"
              /\ sfres.values = Restricted(docs[sfres.num + 1])

\* The second of two documents is read back: the first had None under a name
\* of the writer, the second None under another name, which is kept.
C11_Witness ==
    /\ docs = << (FieldA :> PNone) @@ (FieldB :> PStr(<<121>>)),
                 (FieldA :> PInt(7)) @@ (FieldZ :> PNone) >>
    /\ sfres.kind = "ok"
    /\ sfres.num = 1
    /\ sfres.values = (FieldA :> PInt(7)) @@ (FieldZ :> PNone)
    /\ getitem(sfr, sfw.file, 0).values = (FieldB :> PStr(<<121>>))

\* C12: reader[n] for n outside [0, doc_count), n < 0 as well as
\* n >= doc_count, fails with IndexError and reads no directory entry and no
\* document.
C12_IndexError ==
    (sfres.kind # "none" /\ sfres.num \notin 0 .. sfr.length - 1) =>
        /\ sfres.kind = "IndexError"
        /\ sfres.reads = <<>>

\* As much of it as the comparison num > self.length - 1 gives: a number at
\* or above the count fails with IndexError, nothing having been read.
C12_AtOrAboveCount ==
    (sfres.kind # "none" /\ sfres.num >= sfr.length) =>
        /\ sfres.kind = "IndexError"
        /\ sfres.reads = <<>>

====
